---------------------------- MODULE Spec2Model ----------------------------
(***************************************************************************)
(* Form validators of flourish_form_validations.                           *)
(*                                                                         *)
(* The persisted records (consents, consent versions, maternal visits,     *)
(* ultrasounds, pre-pregnancy ARV records, offstudy records, action items) *)
(* live in the host framework's data layer.  They are created by the       *)
(* framework (the environment actions below) and only read by the          *)
(* validators.  A validator instance is built for one submission, runs     *)
(* clean() synchronously and is then discarded.                            *)
(***************************************************************************)
EXTENDS Integers, Sequences, FiniteSets, TLC

(***************************************************************************)
(* Bounds of the model.                                                    *)
(***************************************************************************)
MaxConsents == 2
MaxTime == 2

(***************************************************************************)
(* Values.                                                                 *)
(***************************************************************************)
None == "None"
NoDate == 0
\* None where a model instance is expected.
NoObject == [none |-> TRUE]
YES == "Yes"
NO == "No"
New == "New"
CLOSED == "closed"
POS == "POS"
NEG == "NEG"
NOT_APPLICABLE == "N/A"
Other == "OTHER"
CAREGIVEROFF_STUDY_ACTION == "submit-caregiveroff-study"
OtherAction == "submit-other-prn"

Subjects == {"s1", "s2"}
Times == 1..MaxTime

\* A consent carries the screening identifier of the subject it consents.
ScreeningOf(subject) == IF subject = "s1" THEN "scr1" ELSE "scr2"

\* Python truthiness of a submitted or stored scalar.
Falsy(v) == v = None \/ v = ""

(***************************************************************************)
(* State.                                                                  *)
(***************************************************************************)
VARIABLES
    form,                \* the form whose submissions are being validated
    consents,            \* subjectconsent table, in primary-key order
    consent_versions,    \* flourishconsentversion table
    maternal_visits,     \* maternalvisit table
    ultrasounds,         \* ultrasound table
    arvs_pre_pregnancy,  \* arvsprepregnancy table
    offstudies,          \* caregiveroffstudy table
    action_items,        \* action item table
    call                 \* the validator instance of the current submission

store == <<consents, consent_versions, maternal_visits, ultrasounds,
           arvs_pre_pregnancy, offstudies, action_items>>
vars == <<form, consents, consent_versions, maternal_visits, ultrasounds,
          arvs_pre_pregnancy, offstudies, action_items, call>>

Forms == {"TbAdolConsent", "Crf", "MaternalDelivery", "CaregiverReferralFU"}

Idle == [op |-> "idle"]

(***************************************************************************)
(* Outcomes of a validator call.                                           *)
(***************************************************************************)
Accepted == [kind |-> "accepted", field |-> None, msg |-> None]
Invalid(field, msg) == [kind |-> "ValidationError", field |-> field, msg |-> msg]
Raised(exc) == [kind |-> exc, field |-> None, msg |-> None]

(***************************************************************************)
(* Queries of the object-relational layer.  The tables the validators read *)
(* with objects.get() (consent versions by screening identifier, the       *)
(* pre-pregnancy ARV form, the offstudy record and the NEW caregiver-      *)
(* offstudy action item by subject) hold at most one row per key.          *)
(***************************************************************************)
ConsentsOf(subject) ==
    LET Mine(c) == c.subject_identifier = subject
    IN SelectSeq(consents, Mine)

\* Variant: first() in place of last().
LastOrNoneFirst(rows) == IF Len(rows) = 0 THEN NoObject ELSE rows[1]

\* queryset.last(): the last row in primary-key order, None when empty.
LastOrNone(rows) == IF Len(rows) = 0 THEN NoObject ELSE rows[Len(rows)]

\* .exists()-style reads of the remaining tables.
ConsentVersionsOf(screening_identifier) ==
    {v \in consent_versions : v.screening_identifier = screening_identifier}

MaternalVisitsOf(subject) ==
    {v \in maternal_visits : v.subject_identifier = subject}

UltrasoundsOf(subject) ==
    {u \in ultrasounds : u.maternal_visit.subject_identifier = subject}

ArvsPrePregnancyOf(subject) ==
    {a \in arvs_pre_pregnancy : a.maternal_visit.subject_identifier = subject}

(***************************************************************************)
(* Helpers of the FormValidator base class, as the validators call them.   *)
(* A value is "given" when it is truthy and not NOT_APPLICABLE.            *)
(***************************************************************************)
Given(v) == ~Falsy(v) /\ v # NOT_APPLICABLE

required_if(responses, cd, field, field_required) ==
    IF cd[field] \in responses /\ ~Given(cd[field_required])
    THEN Invalid(field_required, "This field is required.")
    ELSE IF cd[field] \notin responses /\ Given(cd[field_required])
    THEN Invalid(field_required, "This field is not required.")
    ELSE Accepted

required_if_true(condition, cd, field_required) ==
    IF condition /\ ~Given(cd[field_required])
    THEN Invalid(field_required, "This field is required.")
    ELSE IF ~condition /\ cd[field_required] # None
                       /\ cd[field_required] # NOT_APPLICABLE
    THEN Invalid(field_required, "This field is not required.")
    ELSE Accepted

\* For a many-to-many field the compared value is a queryset, never Other.
validate_other_specify(cd, field, other_specify_field, is_m2m) ==
    LET chosen == IF is_m2m THEN cd[field] # {} ELSE ~Falsy(cd[field])
        is_other == IF is_m2m THEN FALSE ELSE cd[field] = Other
    IN IF chosen /\ is_other /\ Falsy(cd[other_specify_field])
       THEN Invalid(other_specify_field, "This field is required.")
       ELSE IF chosen /\ ~is_other /\ ~Falsy(cd[other_specify_field])
       THEN Invalid(other_specify_field, "This field is not required.")
       ELSE Accepted

m2m_required_if(response, cd, field, m2m_field) ==
    IF cd[field] = response /\ cd[m2m_field] = {}
    THEN Invalid(m2m_field, "This field is required")
    ELSE IF cd[field] # response /\ cd[m2m_field] # {}
    THEN Invalid(m2m_field, "This field is not required")
    ELSE Accepted

m2m_other_specify(response, cd, m2m_field, field_other) ==
    IF cd[m2m_field] # {}
    THEN IF response \in cd[m2m_field] /\ Falsy(cd[field_other])
         THEN Invalid(field_other, "This field is required.")
         ELSE IF response \notin cd[m2m_field] /\ ~Falsy(cd[field_other])
         THEN Invalid(field_other, "This field is not required.")
         ELSE Accepted
    ELSE IF ~Falsy(cd[field_other])
    THEN Invalid(field_other, "This field is not required.")
    ELSE Accepted

m2m_single_selection_if(single_selections, cd, m2m_field) ==
    IF Cardinality(cd[m2m_field]) > 1 /\ cd[m2m_field] \cap single_selections # {}
    THEN Invalid(m2m_field, "Invalid combination.")
    ELSE Accepted

\* Run a sequence of validations in order; the first that raises ends the call.
RECURSIVE FirstFailure(_, _)
FirstFailure(results, i) ==
    IF i > Len(results) THEN Accepted
    ELSE IF results[i] # Accepted THEN results[i]
    ELSE FirstFailure(results, i + 1)

(***************************************************************************)
(* FormValidatorMixin                                                      *)
(***************************************************************************)
\* Variant: first() in place of latest('consent_datetime').
LatestByPk(rows) == rows[1]

\* queryset.latest('consent_datetime').
LatestBy(rows) ==
    CHOOSE c \in {rows[i] : i \in 1..Len(rows)} :
        \A i \in 1..Len(rows) : rows[i].consent_datetime <= c.consent_datetime

latest_consent_obj(subject_identifier) ==
    LET subject_consents == ConsentsOf(subject_identifier)
    IN IF Len(subject_consents) > 0 THEN LatestBy(subject_consents) ELSE NoObject

\* The function has no return statement: the caller gets None.
validate_against_consent_datetime(subject_identifier, report_datetime) ==
    LET latest == latest_consent_obj(subject_identifier)
    IN IF latest # NoObject
       THEN IF report_datetime # NoDate /\ report_datetime < latest.consent_datetime
            THEN [outcome |-> Invalid(None, "Report datetime cannot be before consent datetime"),
                  returned |-> NoObject]
            ELSE [outcome |-> Accepted, returned |-> NoObject]
       ELSE [outcome |-> Invalid(None, "Please complete Caregiver Consent form before proceeding."),
             returned |-> NoObject]

validate_against_visit_datetime(cd, report_datetime) ==
    IF report_datetime # NoDate /\ report_datetime < cd.maternal_visit.report_datetime
    THEN Invalid(None, "Report datetime cannot be before visit datetime.")
    ELSE Accepted

validate_consent_version_obj(subject_identifier) ==
    LET latest == latest_consent_obj(subject_identifier)
    IN IF latest # NoObject /\ ConsentVersionsOf(latest.screening_identifier) = {}
       THEN Invalid(None, "Consent version form has not been completed, kindly complete it before continuing.")
       ELSE Accepted

\* FormValidatorMixin.clean: the subject it settles on and its outcome.
MixinSubject(cd) ==
    IF cd.maternal_visit # NoObject
    THEN cd.maternal_visit.subject_identifier
    ELSE cd.subject_identifier

MixinClean(cd) ==
    LET visit_check == IF cd.maternal_visit # NoObject
                       THEN validate_against_visit_datetime(cd, cd.report_datetime)
                       ELSE Accepted
    IN IF visit_check # Accepted THEN visit_check
       ELSE validate_consent_version_obj(MixinSubject(cd))

(***************************************************************************)
(* MaternalDeliveryFormValidator                                           *)
(***************************************************************************)
RegimenWeeks == 4

CSectionModes == {"elective c-section"}

validate_ultrasound(cd) ==
    IF UltrasoundsOf(cd.subject_identifier) = {}
    THEN Invalid(None, "Please complete ultrasound form first")
    ELSE Accepted

\* hiv_status is what MaternalStatusHelper reports for the latest visit.
validate_valid_regime_hiv_pos_only(cd, hiv_status) ==
    IF MaternalVisitsOf(cd.subject_identifier) = {}
    THEN Invalid(None, "Please complete previous visits before filling in Maternal Labour Delivery Form.")
    ELSE IF hiv_status = POS
    THEN IF cd.valid_regiment_duration # YES
         THEN Invalid("valid_regiment_duration", "Participant is HIV+ valid regimen duration should be YES. Please correct.")
         ELSE IF cd.arv_initiation_date = NoDate
         THEN Invalid("arv_initiation_date", "You indicated participant was on valid regimen, please give a valid arv initiation date.")
         ELSE IF cd.delivery_datetime = NoDate
         THEN Raised("AttributeError")
         ELSE IF cd.delivery_datetime - RegimenWeeks < cd.arv_initiation_date
         THEN Invalid("delivery_datetime", "You indicated that the mother was on REGIMEN for a valid duration, but delivery date is within 4weeks of art initiation date. Please correct.")
         ELSE Accepted
    ELSE IF cd.valid_regiment_duration # NOT_APPLICABLE
         THEN Invalid("valid_regiment_duration", "valid regimen duration should be Not Applicable.")
         ELSE IF cd.arv_initiation_date # NoDate
         THEN Invalid("arv_initiation_date", "arv initiation date should not filled.")
         ELSE Accepted

validate_live_births_still_birth(cd) ==
    LET still_births == cd.still_births
        live_births == cd.live_infants_to_register
    IN IF still_births = 0 /\ live_births # 1
       THEN Invalid("live_infants_to_register", "If still birth is 0 then live birth should be 1.")
       ELSE IF still_births = 1 /\ live_births # 0
       THEN Invalid("still_births", "If live births is 1 then still birth should be 0.")
       ELSE Accepted

validate_other(cd) ==
    FirstFailure(<<
        validate_other_specify(cd, "delivery_hospital", "delivery_hospital_other", FALSE),
        validate_other_specify(cd, "mode_delivery", "mode_delivery_other", FALSE),
        validate_other_specify(cd, "csection_reason", "csection_reason_other", FALSE),
        m2m_single_selection_if({"delivery_comp_other", "delivery_comp_none"},
                                cd, "delivery_complications"),
        m2m_other_specify("delivery_comp_other", cd, "delivery_complications",
                          "delivery_complications_other")>>, 1)

validate_against_maternal_delivery(cd) ==
    IF \E pre_pregnancy \in ArvsPrePregnancyOf(cd.subject_identifier) :
           pre_pregnancy.art_start_date # cd.arv_initiation_date
    THEN Invalid("arv_initiation_date", "Date not corresponding with the date from Arv Pregnancy CRF")
    ELSE Accepted

MaternalDeliveryClean(cd, hiv_status) ==
    LET subject_identifier == MixinSubject(cd)
        condition == cd.mode_delivery \in CSectionModes
    IN FirstFailure(<<
        MixinClean(cd),
        validate_against_consent_datetime(subject_identifier, cd.report_datetime).outcome,
        required_if_true(condition, cd, "csection_reason"),
        validate_against_maternal_delivery(cd),
        validate_ultrasound(cd),
        validate_valid_regime_hiv_pos_only(cd, hiv_status),
        validate_live_births_still_birth(cd),
        validate_other(cd)>>, 1)

(***************************************************************************)
(* CaregiverReferralFUFormValidator                                        *)
(***************************************************************************)
other_fields == <<"referred_to", "support_ref_decline_reason", "no_support_reason",
                  "emo_support_type", "emo_health_improved", "percieve_counselor">>
OtherOf(field) ==
    CASE field = "referred_to" -> "referred_to_other"
      [] field = "support_ref_decline_reason" -> "support_ref_decline_reason_other"
      [] field = "no_support_reason" -> "no_support_reason_other"
      [] field = "emo_support_type" -> "emo_support_type_other"
      [] field = "emo_health_improved" -> "emo_health_improved_other"
      [] field = "percieve_counselor" -> "percieve_counselor_other"

emo_fields == <<"emo_health_improved", "percieve_counselor", "satisfied_counselor">>

\* Variant: the last rule, on additional_counseling, is left out.
CaregiverReferralFUChecksShort(cd) ==
    FirstFailure(
        <<MixinClean(cd)>>
        \o [i \in 1..Len(other_fields) |->
              validate_other_specify(cd, other_fields[i], OtherOf(other_fields[i]),
                                     other_fields[i] = "emo_support_type")]
        \o <<required_if({NO}, cd, "attended_referral", "support_ref_decline_reason"),
             required_if({YES}, cd, "attended_referral", "emo_support"),
             required_if({NO}, cd, "emo_support", "no_support_reason"),
             m2m_required_if(YES, cd, "emo_support", "emo_support_type"),
             m2m_other_specify(Other, cd, "emo_support_type", "emo_support_type_other")>>
        \o [i \in 1..Len(emo_fields) |-> required_if({YES}, cd, "emo_support", emo_fields[i])],
        1)

CaregiverReferralFUChecks(cd) ==
    FirstFailure(
        <<MixinClean(cd)>>
        \o [i \in 1..Len(other_fields) |->
              validate_other_specify(cd, other_fields[i], OtherOf(other_fields[i]),
                                     other_fields[i] = "emo_support_type")]
        \o <<required_if({NO}, cd, "attended_referral", "support_ref_decline_reason"),
             required_if({YES}, cd, "attended_referral", "emo_support"),
             required_if({NO}, cd, "emo_support", "no_support_reason"),
             m2m_required_if(YES, cd, "emo_support", "emo_support_type"),
             m2m_other_specify(Other, cd, "emo_support_type", "emo_support_type_other")>>
        \o [i \in 1..Len(emo_fields) |-> required_if({YES}, cd, "emo_support", emo_fields[i])]
        \o <<required_if({NO}, cd, "satisfied_counselor", "additional_counseling")>>, 1)

\* cleaned_data.get('maternal_visit').subject_identifier fails on None.
CaregiverReferralFUClean(cd) ==
    IF cd.maternal_visit = NoObject
    THEN Raised("AttributeError")
    ELSE CaregiverReferralFUChecks(cd)

(***************************************************************************)
(* TbAdolConsentFormValidator                                              *)
(***************************************************************************)
Fields == <<"first_name", "last_name", "initials", "is_literate", "dob",
            "is_dob_estimated", "citizen", "identity", "confirm_identity">>
FieldSet == {Fields[i] : i \in 1..Len(Fields)}

\* The loop over fields, from index i on, against a consent that exists.
RECURSIVE CompareFields(_, _, _)
CompareFields(cd, consent, i) ==
    IF i > Len(Fields) THEN Accepted
    ELSE LET field == Fields[i]
             flourish_consent_value == consent[field]
             tb_consent_values == cd[field]
         IN IF Falsy(tb_consent_values)
            THEN Invalid(field, "Please fill the value")
            ELSE IF tb_consent_values # flourish_consent_value
            THEN Invalid(field, "TB Consent value not the same as the flourish consent")
            ELSE CompareFields(cd, consent, i + 1)

\* filter(...).last() never raises DoesNotExist: without a consent the first
\* loop iteration reads __dict__ of None.
consent_validation(cd) ==
    LET flourish_subject_consent == LastOrNone(ConsentsOf(cd.subject_identifier))
    IN IF flourish_subject_consent = NoObject
       THEN Raised("AttributeError")
       ELSE CompareFields(cd, flourish_subject_consent, 1)

TbAdolConsentClean(cd) == consent_validation(cd)

(***************************************************************************)
(* FormValidatorMixin.validate_offstudy_model                              *)
(***************************************************************************)
NewOffstudyActionItems(subject) ==
    {a \in action_items : /\ a.subject_identifier = subject
                          /\ a.name = CAREGIVEROFF_STUDY_ACTION
                          /\ a.status = New}

OffstudiesOf(subject) == {o \in offstudies : o = subject}

\* Variant: the offstudy record is looked up before the action item.
validate_offstudy_model_record_first(subject_identifier, cd) ==
    IF OffstudiesOf(subject_identifier) # {}
    THEN Invalid(None, "Participant has been taken offstudy. Cannot capture any new data.")
    ELSE IF NewOffstudyActionItems(subject_identifier) = {}
    THEN Accepted
    ELSE LET maternal_visit == cd.maternal_visit
         IN IF maternal_visit = NoObject \/ maternal_visit.require_crfs = NO
            THEN Invalid(None, "Participant is scheduled to be taken offstudy without any new data collection. Cannot capture any new data.")
            ELSE Accepted

validate_offstudy_model(subject_identifier, cd) ==
    IF NewOffstudyActionItems(subject_identifier) = {}
    THEN IF OffstudiesOf(subject_identifier) = {}
         THEN Accepted
         ELSE Invalid(None, "Participant has been taken offstudy. Cannot capture any new data.")
    ELSE LET maternal_visit == cd.maternal_visit
         IN IF maternal_visit = NoObject \/ maternal_visit.require_crfs = NO
            THEN Invalid(None, "Participant is scheduled to be taken offstudy without any new data collection. Cannot capture any new data.")
            ELSE Accepted

(***************************************************************************)
(* Submissions.  cleaned_data holds every field of its form; a field left  *)
(* blank holds None.  The delivery form has no maternal_visit field.       *)
(***************************************************************************)
Values == {None, "", "a", "b"}

BaseIdentity == [f \in FieldSet |-> "a"]

\* Identity fields as entered: the base entry with up to two fields changed.
Entered == {[[BaseIdentity EXCEPT ![f] = v] EXCEPT ![g] = w] :
                f \in FieldSet, g \in FieldSet, v \in Values, w \in Values}

TbSubmissions ==
    {[subject_identifier |-> s] @@ e : s \in Subjects \cup {None}, e \in Entered}

VisitObjects ==
    {[subject_identifier |-> s, report_datetime |-> t, require_crfs |-> r] :
        s \in Subjects, t \in Times, r \in {YES, NO}}

\* Override one field of a submission.
With(cd, field, v) == [cd EXCEPT ![field] = v]

DeliveryDomains ==
    [mode_delivery |-> {None, "spontaneous vaginal", "elective c-section", Other},
     mode_delivery_other |-> {None, "x"},
     csection_reason |-> {None, "x", Other, NOT_APPLICABLE},
     csection_reason_other |-> {None, "x"},
     delivery_hospital |-> {"clinic", Other},
     delivery_hospital_other |-> {None, "x"},
     arv_initiation_date |-> {NoDate} \cup Times,
     valid_regiment_duration |-> {YES, NO, NOT_APPLICABLE},
     delivery_datetime |-> {NoDate, MaxTime + RegimenWeeks - 1, MaxTime + RegimenWeeks},
     still_births |-> {0, 1, 2},
     live_infants_to_register |-> {0, 1, 2},
     delivery_complications |-> SUBSET {"delivery_comp_other", "delivery_comp_none", "haemorrhage"},
     delivery_complications_other |-> {None, "x"}]

\* A delivery entry that passes every field rule for an HIV- mother, and the
\* ones that pass for an HIV+ mother who started ARVs on date d.
DeliveryBase(s, t) ==
    [subject_identifier |-> s, maternal_visit |-> NoObject, report_datetime |-> t,
     mode_delivery |-> "spontaneous vaginal", mode_delivery_other |-> None,
     csection_reason |-> None, csection_reason_other |-> None,
     delivery_hospital |-> "clinic", delivery_hospital_other |-> None,
     arv_initiation_date |-> NoDate, valid_regiment_duration |-> NOT_APPLICABLE,
     delivery_datetime |-> MaxTime + RegimenWeeks,
     still_births |-> 0, live_infants_to_register |-> 1,
     delivery_complications |-> {}, delivery_complications_other |-> None]

DeliveryBases ==
    {DeliveryBase(s, t) : s \in Subjects, t \in {NoDate} \cup Times}
    \cup {With(With(DeliveryBase(s, t), "valid_regiment_duration", YES),
               "arv_initiation_date", d) :
            s \in Subjects, t \in {NoDate} \cup Times, d \in Times}

\* The bases, and the bases of subject s1 without report date with one field changed.
DeliverySubmissions ==
    LET varied == {c \in DeliveryBases : /\ c.subject_identifier = "s1"
                                         /\ c.report_datetime = NoDate}
    IN DeliveryBases
       \cup UNION {{With(b, f, v) : b \in varied, v \in DeliveryDomains[f]} :
                      f \in DOMAIN DeliveryDomains}

ReferralHead(mv, t) == [maternal_visit |-> mv, report_datetime |-> t]

ReferralOthers ==
    [referred_to |-> None, referred_to_other |-> None,
     support_ref_decline_reason_other |-> None, no_support_reason_other |-> None,
     emo_health_improved_other |-> None, percieve_counselor_other |-> None]

\* Every combination of answers to the chained questions.
ReferralChains ==
    [attended_referral : {None, YES, NO},
     support_ref_decline_reason : {None, "x"},
     emo_support : {None, YES, NO},
     no_support_reason : {None, "x"},
     emo_support_type : {{}, {"counselling"}, {Other, "counselling"}},
     emo_support_type_other : {None, "x"},
     emo_health_improved : {None, "x"},
     percieve_counselor : {None, "x"},
     satisfied_counselor : {None, YES, NO},
     additional_counseling : {None, "x"}]

ReferralDomains ==
    [attended_referral |-> {None, YES, NO},
     support_ref_decline_reason |-> {None, "x", Other, NOT_APPLICABLE},
     emo_support |-> {None, YES, NO, NOT_APPLICABLE},
     no_support_reason |-> {None, "x", Other, NOT_APPLICABLE},
     emo_support_type |-> SUBSET {"counselling", Other},
     emo_support_type_other |-> {None, "x"},
     emo_health_improved |-> {None, "x", Other, NOT_APPLICABLE},
     percieve_counselor |-> {None, "x", Other, NOT_APPLICABLE},
     satisfied_counselor |-> {None, YES, NO, NOT_APPLICABLE},
     additional_counseling |-> {None, "x", NOT_APPLICABLE},
     referred_to |-> {None, "x", Other},
     referred_to_other |-> {None, "x"},
     support_ref_decline_reason_other |-> {None, "x"},
     no_support_reason_other |-> {None, "x"},
     emo_health_improved_other |-> {None, "x"},
     percieve_counselor_other |-> {None, "x"}]

ReferralVisits == {v \in VisitObjects : v.require_crfs = YES}

\* Two entries that pass every field rule: nothing answered, and a referral
\* that was attended with counselling received.
ReferralBlank ==
    [attended_referral |-> None, support_ref_decline_reason |-> None,
     emo_support |-> None, no_support_reason |-> None, emo_support_type |-> {},
     emo_support_type_other |-> None, emo_health_improved |-> None,
     percieve_counselor |-> None, satisfied_counselor |-> None,
     additional_counseling |-> None] @@ ReferralOthers
ReferralAttended ==
    [attended_referral |-> YES, support_ref_decline_reason |-> None,
     emo_support |-> YES, no_support_reason |-> None, emo_support_type |-> {"counselling"},
     emo_support_type_other |-> None, emo_health_improved |-> "x",
     percieve_counselor |-> "x", satisfied_counselor |-> NO,
     additional_counseling |-> "x"] @@ ReferralOthers

\* All chains for one visit; the two passing entries for every visit and report
\* date, and with one field changed.
ReferralSubmissions ==
    LET head == ReferralHead([subject_identifier |-> "s1", report_datetime |-> 1,
                              require_crfs |-> YES], NoDate)
        bases == {ReferralBlank, ReferralAttended}
    IN {head @@ c @@ ReferralOthers : c \in ReferralChains}
       \cup {ReferralHead(mv, t) @@ b : mv \in ReferralVisits \cup {NoObject},
                                        t \in {NoDate} \cup Times, b \in bases}
       \cup UNION {{head @@ With(b, f, v) : b \in bases, v \in ReferralDomains[f]} :
                      f \in DOMAIN ReferralDomains}

(***************************************************************************)
(* The framework creating records.                                         *)
(***************************************************************************)
\* Identity values as stored on a consent.
StoredIdentities ==
    {BaseIdentity, [BaseIdentity EXCEPT !["dob"] = "b"],
     [BaseIdentity EXCEPT !["confirm_identity"] = None]}

NewConsent(s, t, id) ==
    [subject_identifier |-> s, consent_datetime |-> t,
     screening_identifier |-> ScreeningOf(s)] @@ id

\* What the framework records while a form is exercised: the columns a form's
\* validator reads vary, the others are fixed.  While deliveries are validated,
\* records are kept for subject s1 and s2 is a subject without records.
RecordSubjects == IF form = "MaternalDelivery" THEN {"s1"} ELSE Subjects
ConsentTimes == IF form = "MaternalDelivery" THEN Times ELSE {MaxTime}
ConsentIdentities == IF form = "TbAdolConsent" THEN StoredIdentities ELSE {BaseIdentity}

AddConsent ==
    /\ call = Idle
    /\ form \in {"TbAdolConsent", "MaternalDelivery", "CaregiverReferralFU"}
    /\ Len(consents) < MaxConsents
    /\ \E s \in RecordSubjects, t \in ConsentTimes, id \in ConsentIdentities :
         consents' = Append(consents, NewConsent(s, t, id))
    /\ UNCHANGED <<form, consent_versions, maternal_visits, ultrasounds,
                   arvs_pre_pregnancy, offstudies, action_items, call>>

AddConsentVersion ==
    /\ call = Idle
    /\ form \in {"MaternalDelivery", "CaregiverReferralFU"}
    /\ \E s \in RecordSubjects :
         LET v == [screening_identifier |-> ScreeningOf(s)]
         IN v \notin consent_versions /\ consent_versions' = consent_versions \cup {v}
    /\ UNCHANGED <<form, consents, maternal_visits, ultrasounds,
                   arvs_pre_pregnancy, offstudies, action_items, call>>

AddMaternalVisit ==
    /\ call = Idle
    /\ form = "MaternalDelivery"
    /\ \E s \in RecordSubjects :
         LET v == [subject_identifier |-> s]
         IN v \notin maternal_visits /\ maternal_visits' = maternal_visits \cup {v}
    /\ UNCHANGED <<form, consents, consent_versions, ultrasounds,
                   arvs_pre_pregnancy, offstudies, action_items, call>>

AddUltrasound ==
    /\ call = Idle
    /\ form = "MaternalDelivery"
    /\ \E v \in maternal_visits :
         /\ UltrasoundsOf(v.subject_identifier) = {}
         /\ ultrasounds' = ultrasounds \cup {[maternal_visit |-> v]}
    /\ UNCHANGED <<form, consents, consent_versions, maternal_visits,
                   arvs_pre_pregnancy, offstudies, action_items, call>>

\* One pre-pregnancy ARV form per subject: the validator reads it with get().
AddArvsPrePregnancy ==
    /\ call = Idle
    /\ form = "MaternalDelivery"
    /\ \E v \in maternal_visits, d \in Times :
         /\ ArvsPrePregnancyOf(v.subject_identifier) = {}
         /\ arvs_pre_pregnancy' = arvs_pre_pregnancy
                \cup {[maternal_visit |-> v, art_start_date |-> d]}
    /\ UNCHANGED <<form, consents, consent_versions, maternal_visits,
                   ultrasounds, offstudies, action_items, call>>

AddOffstudy ==
    /\ call = Idle
    /\ form = "Crf"
    /\ \E s \in Subjects \ offstudies : offstudies' = offstudies \cup {s}
    /\ UNCHANGED <<form, consents, consent_versions, maternal_visits, ultrasounds,
                   arvs_pre_pregnancy, action_items, call>>

ActionItemObjects ==
    {[subject_identifier |-> s, name |-> n, status |-> st] :
        s \in Subjects, n \in {CAREGIVEROFF_STUDY_ACTION, OtherAction},
        st \in {New, CLOSED}} \
    {[subject_identifier |-> s, name |-> OtherAction, status |-> CLOSED] : s \in Subjects}

AddActionItem ==
    /\ call = Idle
    /\ form = "Crf"
    /\ \E a \in ActionItemObjects \ action_items : action_items' = action_items \cup {a}
    /\ UNCHANGED <<form, consents, consent_versions, maternal_visits, ultrasounds,
                   arvs_pre_pregnancy, offstudies, call>>

(***************************************************************************)
(* Validator calls.                                                        *)
(***************************************************************************)
RunTbAdolConsent ==
    /\ call = Idle
    /\ form = "TbAdolConsent"
    /\ \E cd \in TbSubmissions :
         call' = [op |-> "TbAdolConsentFormValidator.clean", cd |-> cd,
                  subject_identifier |-> cd.subject_identifier,
                  outcome |-> TbAdolConsentClean(cd)]
    /\ UNCHANGED <<form, consents, consent_versions, maternal_visits, ultrasounds,
                   arvs_pre_pregnancy, offstudies, action_items>>

RunMaternalDelivery ==
    /\ call = Idle
    /\ form = "MaternalDelivery"
    /\ \E cd \in DeliverySubmissions, hiv_status \in {POS, NEG} :
         call' = [op |-> "MaternalDeliveryFormValidator.clean", cd |-> cd,
                  subject_identifier |-> MixinSubject(cd),
                  hiv_status |-> hiv_status,
                  outcome |-> MaternalDeliveryClean(cd, hiv_status)]
    /\ UNCHANGED <<form, consents, consent_versions, maternal_visits, ultrasounds,
                   arvs_pre_pregnancy, offstudies, action_items>>

RunValidateAgainstConsentDatetime ==
    /\ call = Idle
    /\ form = "MaternalDelivery"
    /\ \E s \in Subjects, t \in {NoDate} \cup Times :
         LET r == validate_against_consent_datetime(s, t)
         IN call' = [op |-> "validate_against_consent_datetime",
                     cd |-> [report_datetime |-> t],
                     subject_identifier |-> s,
                     outcome |-> r.outcome, returned |-> r.returned]
    /\ UNCHANGED <<form, consents, consent_versions, maternal_visits, ultrasounds,
                   arvs_pre_pregnancy, offstudies, action_items>>

RunCaregiverReferralFU ==
    /\ call = Idle
    /\ form = "CaregiverReferralFU"
    /\ \E cd \in ReferralSubmissions :
         call' = [op |-> "CaregiverReferralFUFormValidator.clean", cd |-> cd,
                  outcome |-> CaregiverReferralFUClean(cd)]
    /\ UNCHANGED <<form, consents, consent_versions, maternal_visits, ultrasounds,
                   arvs_pre_pregnancy, offstudies, action_items>>

\* Variant: the offstudy record is fetched with get_or_create.
RunValidateOffstudyGetOrCreate ==
    /\ call = Idle
    /\ form = "Crf"
    /\ \E s \in Subjects, mv \in VisitObjects \cup {NoObject} :
         LET cd == [maternal_visit |-> mv]
         IN /\ call' = [op |-> "validate_offstudy_model", cd |-> cd,
                        subject_identifier |-> s,
                        outcome |-> validate_offstudy_model(s, cd)]
            /\ offstudies' = IF NewOffstudyActionItems(s) = {}
                             THEN offstudies \cup {s} ELSE offstudies
    /\ UNCHANGED <<form, consents, consent_versions, maternal_visits, ultrasounds,
                   arvs_pre_pregnancy, action_items>>

RunValidateOffstudy ==
    /\ call = Idle
    /\ form = "Crf"
    /\ \E s \in Subjects, mv \in VisitObjects \cup {NoObject} :
         LET cd == [maternal_visit |-> mv]
         IN call' = [op |-> "validate_offstudy_model", cd |-> cd,
                     subject_identifier |-> s,
                     outcome |-> validate_offstudy_model(s, cd)]
    /\ UNCHANGED <<form, consents, consent_versions, maternal_visits, ultrasounds,
                   arvs_pre_pregnancy, offstudies, action_items>>

\* The validator instance goes out of scope.
Discard ==
    /\ call # Idle
    /\ call' = Idle
    /\ UNCHANGED <<form, consents, consent_versions, maternal_visits, ultrasounds,
                   arvs_pre_pregnancy, offstudies, action_items>>

Init ==
    /\ form \in Forms
    /\ consents = <<>>
    /\ consent_versions = {}
    /\ maternal_visits = {}
    /\ ultrasounds = {}
    /\ arvs_pre_pregnancy = {}
    /\ offstudies = {}
    /\ action_items = {}
    /\ call = Idle

Next ==
    \/ AddConsent
    \/ AddConsentVersion
    \/ AddMaternalVisit
    \/ AddUltrasound
    \/ AddArvsPrePregnancy
    \/ AddOffstudy
    \/ AddActionItem
    \/ RunTbAdolConsent
    \/ RunMaternalDelivery
    \/ RunValidateAgainstConsentDatetime
    \/ RunCaregiverReferralFU
    \/ RunValidateOffstudy
    \/ Discard

Spec == Init /\ [][Next]_vars


(***************************************************************************)
(* Properties.                                                             *)
(***************************************************************************)
IsCall(op) == call # Idle /\ call.op = op

\* C1: a validator call, accepting or rejecting, leaves every persisted record
\* as it was: nothing is created, changed or deleted.
C1_ValidatorsOnlyRead == [][(call = Idle /\ call' # Idle) => store' = store]_vars

C1_Witness ==
    /\ IsCall("MaternalDeliveryFormValidator.clean")
    /\ call.outcome = Accepted
    /\ Len(consents) = MaxConsents
    /\ arvs_pre_pregnancy # {}

\* The consents of a subject that no other consent of the subject postdates.
CurrentConsents(subject) ==
    {c \in {consents[i] : i \in 1..Len(consents)} :
        /\ c.subject_identifier = subject
        /\ \A j \in 1..Len(consents) :
              consents[j].subject_identifier = subject
                  => consents[j].consent_datetime <= c.consent_datetime}

DeliveryPrerequisites(subject, report_datetime) ==
    /\ \E c \in CurrentConsents(subject) :
          /\ report_datetime # NoDate => report_datetime >= c.consent_datetime
          /\ \E v \in consent_versions : v.screening_identifier = c.screening_identifier
    /\ \E u \in ultrasounds : u.maternal_visit.subject_identifier = subject
    /\ \E v \in maternal_visits : v.subject_identifier = subject

DeliveryRecordMissing(subject) ==
    \/ CurrentConsents(subject) = {}
    \/ \E c \in CurrentConsents(subject) :
          \A v \in consent_versions : v.screening_identifier # c.screening_identifier
    \/ \A u \in ultrasounds : u.maternal_visit.subject_identifier # subject
    \/ \A v \in maternal_visits : v.subject_identifier # subject

C3_ReturnsCurrentConsent ==
    IsCall("validate_against_consent_datetime") =>
        /\ (CurrentConsents(call.subject_identifier) # {} /\ call.outcome = Accepted)
              => call.returned \in CurrentConsents(call.subject_identifier)
        /\ CurrentConsents(call.subject_identifier) = {}
              => call.outcome.kind = "ValidationError"

\* C4: without a Flourish consent for the submitted subject_identifier the TB
\* adolescent consent is rejected with the validation error "Flourish Consent
\* Doesn't exist", and ends in no other way.
C4_MissingConsentIsValidationError ==
    (IsCall("TbAdolConsentFormValidator.clean")
        /\ \A i \in 1..Len(consents) :
              consents[i].subject_identifier # call.cd.subject_identifier)
    => (call.outcome.kind = "ValidationError"
        /\ call.outcome.msg = "Flourish Consent Doesn't exist")

\* The last stored consent of a subject.
LastStoredConsent(subject) ==
    LET rows == {i \in 1..Len(consents) : consents[i].subject_identifier = subject}
    IN consents[CHOOSE i \in rows : \A j \in rows : j <= i]

FieldOk(cd, consent, field) == ~Falsy(cd[field]) /\ cd[field] = consent[field]

ExpectedTbOutcome(cd, consent) ==
    IF \A i \in 1..Len(Fields) : FieldOk(cd, consent, Fields[i])
    THEN Accepted
    ELSE LET k == CHOOSE i \in 1..Len(Fields) :
                     /\ ~FieldOk(cd, consent, Fields[i])
                     /\ \A j \in 1..(i - 1) : FieldOk(cd, consent, Fields[j])
         IN IF Falsy(cd[Fields[k]])
            THEN Invalid(Fields[k], "Please fill the value")
            ELSE Invalid(Fields[k], "TB Consent value not the same as the flourish consent")

\* C5: with a Flourish consent for the subject, the TB adolescent consent is
\* accepted exactly when each of the nine fields is non-empty and equals the
\* value on the subject's last stored consent; otherwise the error is keyed on
\* the first field, in the listed order, that is empty or differs.
C5_TbConsentMatchesLastConsent ==
    (IsCall("TbAdolConsentFormValidator.clean")
        /\ \E i \in 1..Len(consents) :
              consents[i].subject_identifier = call.cd.subject_identifier)
    => call.outcome =
          ExpectedTbOutcome(call.cd, LastStoredConsent(call.cd.subject_identifier))

C5_Witness ==
    /\ IsCall("TbAdolConsentFormValidator.clean")
    /\ Len(consents) = MaxConsents
    /\ \A i \in 1..Len(consents) :
          consents[i].subject_identifier = call.cd.subject_identifier
    /\ consents[1].dob # consents[Len(consents)].dob
    /\ call.outcome = Accepted

ExpectedOffstudyOutcome(subject, maternal_visit) ==
    IF \E a \in action_items : /\ a.subject_identifier = subject
                               /\ a.name = CAREGIVEROFF_STUDY_ACTION
                               /\ a.status = New
    THEN IF maternal_visit # NoObject /\ maternal_visit.require_crfs # NO
         THEN Accepted
         ELSE Invalid(None, "Participant is scheduled to be taken offstudy without any new data collection. Cannot capture any new data.")
    ELSE IF subject \in offstudies
    THEN Invalid(None, "Participant has been taken offstudy. Cannot capture any new data.")
    ELSE Accepted

Present(cd, field) == cd[field] \notin {None, "", NOT_APPLICABLE}

ReferralChainHolds(cd) ==
    /\ Present(cd, "support_ref_decline_reason") <=> cd.attended_referral = NO
    /\ Present(cd, "emo_support") <=> cd.attended_referral = YES
    /\ Present(cd, "no_support_reason") <=> cd.emo_support = NO
    /\ cd.emo_support = YES =>
          /\ cd.emo_support_type # {}
          /\ Present(cd, "emo_health_improved")
          /\ Present(cd, "percieve_counselor")
          /\ Present(cd, "satisfied_counselor")
    /\ cd.emo_support # YES =>
          /\ cd.emo_support_type = {}
          /\ ~Present(cd, "emo_health_improved")
          /\ ~Present(cd, "percieve_counselor")
          /\ ~Present(cd, "satisfied_counselor")
    /\ Present(cd, "emo_support_type_other") <=> Other \in cd.emo_support_type
    /\ Present(cd, "additional_counseling") <=> cd.satisfied_counselor = NO

\* C7: an accepted caregiver referral follow-up submission satisfies the whole
\* chain of conditional requirements.
C7_AcceptedReferralSatisfiesChain ==
    (IsCall("CaregiverReferralFUFormValidator.clean") /\ call.outcome = Accepted)
        => ReferralChainHolds(call.cd)

C7_Witness ==
    /\ IsCall("CaregiverReferralFUFormValidator.clean")
    /\ call.outcome = Accepted
    /\ call.cd.attended_referral = YES
    /\ call.cd.emo_support = YES
    /\ call.cd.satisfied_counselor = NO
    /\ consents # <<>>

=============================================================================
